---- MODULE Spec2Model ----
(***************************************************************************)
(* Session lifecycle of ovinet-2.0: the Store rows (ActiveSession,         *)
(* PausedSession), the Mikrotik device (users, simple queues) and the      *)
(* request handlers that change them (MikrotikSessionManager operations,   *)
(* the session views and the usage webhook), run by concurrent workers.    *)
(* Every Store query and every device round trip is one atomic step; a     *)
(* handler keeps the model instance it read (a snapshot) between steps.    *)
(***************************************************************************)
EXTENDS Integers, Sequences, FiniteSets, TLC

\* ------------------------------------------------------------------ bounds
MaxOps == 2        \* requests started in one behaviour
MaxTime == 2       \* largest value of the clock
MaxData == 1
MaxCalls == 3       \* largest data_used a webhook reports

\* ------------------------------------------------------------- the universe
SessionIds == {1, 12}
Slots == {"w1", "w2"}            \* concurrent request workers
Managers == {"m1", "m2"}         \* MikrotikSessionManager instances
NULL == 0                        \* a null DateTimeField; real times are >= 1

\* the device credential name a session's caller passes as `username`
UserOf(s) == IF s = 1 THEN <<"a">> ELSE <<"b">>

\* core.constants.SessionStatus: the members the enumeration has
SessionStatus == {"active", "paused", "expired", "cancelled"}

\* ------------------------------------------------------------------- text
DigitChar(d) == <<"0", "1", "2", "3", "4", "5", "6", "7", "8", "9">>[d + 1]

RECURSIVE Str(_)
\* str(n) of a non-negative integer
Str(n) == IF n < 10 THEN <<DigitChar(n)>> ELSE Str(n \div 10) \o <<DigitChar(n % 10)>>

\* f"session-{session_id}"
SessionPrefix(s) == <<"session", "-">> \o Str(s)

\* f"session-{session_id}-{username}"
QueueName(s, u) == SessionPrefix(s) \o <<"-">> \o u

\* name__contains: substring test
Contains(hay, needle) ==
    \E i \in 0..(Len(hay) - Len(needle)) : SubSeq(hay, i + 1, i + Len(needle)) = needle

\* --------------------------------------------------------------- the state
VARIABLES
    session,      \* ActiveSession rows: [exists, status, end_time, data_used]
    pauses,       \* PausedSession rows, in creation order: [session, paused_at, resumed_at]
    dev_users,    \* device /user: the set of credential names
    dev_queues,   \* device /queue/simple: a set of [name, disabled], names unique
    connection,   \* self.connection of each manager: "none", "open" or "stale"
    req,          \* what each worker is running and where it is
    now,          \* timezone.now()
    nops,         \* requests started so far
    hist,         \* completed requests, oldest first: [slot, kind, sid, ret, at, val, fault, conc]
    provisioned,  \* the sessions create_session has returned True for
    subscription, \* the UserSubscription row: [status, expiry_date, current_connections, data_used]
    tokens,       \* AccessToken rows, in primary-key order: [token, created_at]
    call,         \* what each caller of mpesa_access_token is running and where it is
    issued,       \* the access tokens the OAuth endpoint has handed out so far
    calls,        \* completed mpesa_access_token calls, oldest first
    subs,         \* UserSubscription rows the purchase endpoint made for the user: [status, expiry_date]
    buy           \* where each purchase request of the user is

\* what the session requests leave alone
billing == <<tokens, call, issued, calls, subs, buy>>

\* what the token calls and the purchase requests leave alone
lifecycle == <<session, pauses, dev_users, dev_queues, connection, req, hist, provisioned,
               subscription>>

vars == <<session, pauses, dev_users, dev_queues, connection, req, now, nops, hist,
          provisioned, subscription, tokens, call, issued, calls, subs, buy>>

Callers == {"c1", "c2"}          \* concurrent callers of mpesa_access_token
Purchases == {"p1", "p2", "p3"}  \* concurrent purchase requests of one user

IdleCall == [pc |-> "idle", id |-> 0, saw |-> "none", r1 |-> "none", r2 |-> "none",
             tok |-> 0, sent |-> 0, wrote |-> FALSE]

\* no access token stored, no purchase made, nobody calling
NoBilling ==
    /\ tokens = <<>>
    /\ call = [c \in Callers |-> IdleCall]
    /\ issued = 0
    /\ calls = <<>>
    /\ subs = <<>>
    /\ buy = [p \in Purchases |-> "idle"]

\* the subscription instance of a request that has loaded none
NoSubscription == [status |-> "none", expiry_date |-> NULL, current_connections |-> 0, data_used |-> 0]

\* The sessions whose subscription field points at the subscription; the field
\* is nullable, and the other sessions have none.
Linked == {1}

NoRow == [exists |-> FALSE, status |-> "active", end_time |-> NULL, data_used |-> 0]

Idle == [kind |-> "idle", sid |-> 0, pc |-> "idle", mgr |-> "none",
         lstatus |-> "none", lend |-> NULL, rec |-> 0, act |-> "none", val |-> 0,
         lsub |-> NoSubscription]

NewRow == [NoRow EXCEPT !.exists = TRUE]

\* what create_session leaves on the device for the sessions of P
Provisioned(P) ==
    [users |-> {UserOf(s) : s \in P},
     queues |-> {[name |-> QueueName(s, UserOf(s)), disabled |-> FALSE] : s \in P}]

\* A behaviour starts with no request running: each session either has no row
\* yet, or has its new row and what create_session made for it on the device.
\* The subscription is as purchased (status active, counters at their defaults)
\* or as SubscriptionPauseView.post leaves it (status paused).
Init ==
    /\ provisioned \in SUBSET SessionIds
    /\ session = [s \in SessionIds |-> IF s \in provisioned THEN NewRow ELSE NoRow]
    /\ pauses = <<>>
    /\ dev_users = Provisioned(provisioned).users
    /\ dev_queues = Provisioned(provisioned).queues
    /\ connection = [m \in Managers |-> "none"]
    /\ req = [r \in Slots |-> Idle]
    /\ now = 1
    /\ nops = 0
    /\ hist = <<>>
    /\ \E st \in {"active", "paused"} :
            subscription = [status |-> st, expiry_date |-> MaxTime,
                            current_connections |-> 0, data_used |-> 0]
    /\ NoBilling

\* ------------------------------------------------------------ Store queries
\* UserSubscription.simultaneous_connections, at its default
simultaneous_connections == 1

\* UserSubscription.is_active / has_reached_connection_limit on a model instance
subscription_is_active(sub) == sub.status = "active" /\ sub.expiry_date >= now
has_reached_connection_limit(sub) == sub.current_connections >= simultaneous_connections

\* UserSubscription.is_paused
is_sub_paused(sub) == sub.status = "paused"

\* ActiveSession.is_active / is_paused on a model instance
is_active(st) == st = "active"
is_paused(st) == st = "paused"

\* PausedSession.objects.filter(session=s, resumed_at__isnull=True)
OpenPauses(s) == {i \in 1..Len(pauses) : pauses[i].session = s /\ pauses[i].resumed_at = NULL}

\* .first() under Meta.ordering = ['-paused_at']: a latest open record (ties: any)
FirstOpen(s) == {i \in OpenPauses(s) : \A j \in OpenPauses(s) : pauses[j].paused_at <= pauses[i].paused_at}

\* .last() under Meta.ordering = ['-paused_at']: an earliest open record (ties: any)
LastOpen(s) == {i \in OpenPauses(s) : \A j \in OpenPauses(s) : pauses[i].paused_at <= pauses[j].paused_at}

\* timezone.now(): the clock may have advanced since it was last read
Clock == {t \in {now, now + 1} : t <= MaxTime}

\* ------------------------------------------------- ActiveSession's methods
\* Each takes the instance's in-memory status and gives what the method does:
\* whether it raises, whether it saves, and the fields it saves.

\* ActiveSession.pause_session
pause_session(st) ==
    IF st = "active"
    THEN [raised |-> FALSE, saved |-> TRUE, status |-> "paused"]
    ELSE [raised |-> FALSE, saved |-> FALSE, status |-> st]

\* ActiveSession.resume_session
resume_session(st) ==
    IF st = "paused"
    THEN [raised |-> FALSE, saved |-> TRUE, status |-> "active"]
    ELSE [raised |-> FALSE, saved |-> FALSE, status |-> st]

\* ActiveSession.terminate_session: SessionStatus.TERMINATED is looked up first;
\* the enumeration has no such member, so the lookup raises AttributeError
\* before any field is assigned or saved.
terminate_session(st) ==
    IF "terminated" \in SessionStatus
    THEN [raised |-> FALSE, saved |-> TRUE, status |-> "terminated"]
    ELSE [raised |-> TRUE, saved |-> FALSE, status |-> st]

\* -------------------------------------------------------------- the device
\* queue_path.select().where(name__contains=f"session-{session_id}")
MatchingQueues(s) == {q \in dev_queues : Contains(q.name, SessionPrefix(s))}

\* the queue create_session makes for session s
HasQueue(s) == \E q \in dev_queues : q.name = QueueName(s, UserOf(s))

\* queue_path.set(id, disabled=d) on every queue of `done`
SetDisabled(done, d) ==
    (dev_queues \ done) \cup {[name |-> q.name, disabled |-> d] : q \in done}

\* ------------------------------------------------------- request bookkeeping
InFlight(r) == req[r].kind # "idle"

\* the workers other than r that are running a request
Others(r) == {q \in Slots \ {r} : InFlight(q)}

\* A free worker takes the next request. Which free worker takes it makes no
\* difference, so "w2" takes one only while "w1" is busy. Worker "w1" holds the
\* manager instance "m1"; worker "w2" is handed the same instance or its own.
CanStart(r) ==
    /\ ~InFlight(r)
    /\ nops < MaxOps
    /\ r = "w2" => InFlight("w1")

MayUse(r, m) == r = "w1" => m = "m1"

\* the request of worker r, of kind k on session s, ends with result ret at the
\* step it was in ("idle": in its first step); val is the data it reported
Return(r, k, s, ret) ==
    hist' = Append(hist, [slot |-> r, kind |-> k, sid |-> s, ret |-> ret, at |-> req[r].pc,
                          val |-> req[r].val, fault |-> FALSE, conc |-> Others(r)])

\* ... ends with False in a device step: fault tells whether the device call
\* itself failed (a device error, or no open connection to make it on)
Failed(r, k, s, fault) ==
    hist' = Append(hist, [slot |-> r, kind |-> k, sid |-> s, ret |-> "False", at |-> req[r].pc,
                          val |-> req[r].val, fault |-> fault, conc |-> Others(r)])

\* mikrotik_connection(): `if not self.connection: self.connect()`; connect()
\* may fail, and then leaves self.connection None. A connection that is still
\* held ("open", or "stale" after a close() that failed) is used as it is.
Entered(m) == IF connection[m] = "none" THEN {"open", "none"} ELSE {connection[m]}

\* disconnect() in the context manager's finally: `if self.connection:
\* self.connection.close(); self.connection = None`. close() on a connection
\* that is already dead raises again, and the assignment is not reached.
Disconnect(m) == connection' = [connection EXCEPT ![m] = IF @ = "stale" THEN "stale" ELSE "none"]

\* disconnect() after a device call that answered (ok) or failed (~ok) on the
\* connection: after a failure the socket may be dead, close() may raise, and
\* self.connection then keeps the dead connection
DisconnectAfter(m, ok) ==
    IF ok \/ connection[m] # "open"
    THEN Disconnect(m)
    ELSE \E c \in {"none", "stale"} : connection' = [connection EXCEPT ![m] = c]

\* what a call returns when its with-block returned ret: an exception raised by
\* close() in the finally replaces the result, and the outer handler returns False
Closed(m, ret) == IF connection[m] = "stale" THEN "False" ELSE ret

\* ----------------------------------------------------------- row creation
\* A caller stores a new ActiveSession row (session_status defaults to active,
\* end_time to null, data_used_mb to 0) and then has its id to pass on.
CreateRow(s) ==
    /\ ~session[s].exists
    /\ session' = [session EXCEPT ![s] = NewRow]
    /\ UNCHANGED <<pauses, dev_users, dev_queues, connection, req, now, nops, hist, provisioned, subscription,
                 billing>>

\* ------------------------------------- MikrotikSessionManager.create_session
MgrCreateStart(r, m, s) ==
    /\ CanStart(r) /\ MayUse(r, m)
    /\ \E c \in Entered(m) :
        /\ connection' = [connection EXCEPT ![m] = c]
        /\ req' = [req EXCEPT ![r] = [Idle EXCEPT !.kind = "MgrCreate", !.sid = s,
                                                  !.pc = "user", !.mgr = m]]
    /\ nops' = nops + 1
    /\ UNCHANGED <<session, pauses, dev_users, dev_queues, now, hist, provisioned, subscription,
                 billing>>

\* user_path.add(name=username, ...): fails on a closed connection
\* (self.connection is None), on a device error (the user may or may not have
\* been added) and on a name the device already has (RouterOS refuses it)
MgrCreateUser(r) ==
    LET s == req[r].sid
        m == req[r].mgr
    IN  /\ req[r].kind = "MgrCreate" /\ req[r].pc = "user"
        /\ \E ok \in BOOLEAN :
            IF ok /\ connection[m] = "open" /\ UserOf(s) \notin dev_users
            THEN /\ dev_users' = dev_users \cup {UserOf(s)}
                 /\ req' = [req EXCEPT ![r].pc = "queue"]
                 /\ UNCHANGED <<connection, hist>>
            ELSE /\ \E done \in SUBSET {UserOf(s)} :
                        /\ connection[m] = "open" \/ done = {}
                        /\ dev_users' = dev_users \cup done
                 /\ DisconnectAfter(m, ok)
                 /\ req' = [req EXCEPT ![r] = Idle]
                 /\ Failed(r, "MgrCreate", s, ~ok \/ connection[m] # "open")
        /\ UNCHANGED <<session, pauses, dev_queues, now, nops, provisioned, subscription, billing>>

\* queue_path.add(**queue_config), then return True; the add fails as the
\* user's does
MgrCreateQueue(r) ==
    LET s == req[r].sid
        m == req[r].mgr
        name == QueueName(s, UserOf(s))
    IN  /\ req[r].kind = "MgrCreate" /\ req[r].pc = "queue"
        /\ \E ok \in BOOLEAN :
            IF ok /\ connection[m] = "open" /\ ~(\E q \in dev_queues : q.name = name)
            THEN /\ dev_queues' = dev_queues \cup {[name |-> name, disabled |-> FALSE]}
                 /\ provisioned' = provisioned \cup {s}
                 /\ Return(r, "MgrCreate", s, "True")
                 /\ Disconnect(m)
            ELSE /\ \E done \in SUBSET {[name |-> name, disabled |-> FALSE]} :
                        /\ (connection[m] = "open" /\ ~(\E q \in dev_queues : q.name = name))
                             \/ done = {}
                        /\ dev_queues' = dev_queues \cup done
                 /\ Failed(r, "MgrCreate", s, ~ok \/ connection[m] # "open")
                 /\ DisconnectAfter(m, ok)
                 /\ UNCHANGED provisioned
        /\ req' = [req EXCEPT ![r] = Idle]
        /\ UNCHANGED <<session, pauses, dev_users, now, nops, subscription, billing>>

\* ---------------------------------- MikrotikSessionManager.terminate_session
MgrTerminateStart(r, m, s) ==
    /\ CanStart(r) /\ MayUse(r, m)
    /\ \E c \in Entered(m) :
        /\ connection' = [connection EXCEPT ![m] = c]
        /\ req' = [req EXCEPT ![r] = [Idle EXCEPT !.kind = "MgrTerminate", !.sid = s,
                                                  !.pc = "user", !.mgr = m]]
    /\ nops' = nops + 1
    /\ UNCHANGED <<session, pauses, dev_users, dev_queues, now, hist, provisioned, subscription,
                 billing>>

\* users = user_path.select().where(name=username); remove each (none: a
\* warning). On a device error the user may or may not have been removed.
MgrTerminateUser(r) ==
    LET s == req[r].sid
        m == req[r].mgr
    IN  /\ req[r].kind = "MgrTerminate" /\ req[r].pc = "user"
        /\ \E ok \in BOOLEAN :
            IF ok /\ connection[m] = "open"
            THEN /\ dev_users' = dev_users \ {UserOf(s)}
                 /\ req' = [req EXCEPT ![r].pc = "queue"]
                 /\ UNCHANGED <<connection, hist>>
            ELSE /\ \E done \in SUBSET {UserOf(s)} :
                        /\ connection[m] = "open" \/ done = {}
                        /\ dev_users' = dev_users \ done
                 /\ DisconnectAfter(m, ok)
                 /\ req' = [req EXCEPT ![r] = Idle]
                 /\ Failed(r, "MgrTerminate", s, ~ok \/ connection[m] # "open")
        /\ UNCHANGED <<session, pauses, dev_queues, now, nops, provisioned, subscription, billing>>

\* queues = queue_path.select().where(name__contains=...); remove each (none: a
\* warning). A device error may come after some of them were removed (a reply
\* lost after the device acted raises too); on a closed connection none is.
MgrTerminateQueue(r) ==
    LET s == req[r].sid
        m == req[r].mgr
    IN  /\ req[r].kind = "MgrTerminate" /\ req[r].pc = "queue"
        /\ \E ok \in BOOLEAN :
            IF ok /\ connection[m] = "open"
            THEN /\ dev_queues' = dev_queues \ MatchingQueues(s)
                 /\ req' = [req EXCEPT ![r].pc = "store"]
                 /\ UNCHANGED <<connection, hist>>
            ELSE /\ \E done \in SUBSET MatchingQueues(s) :
                        /\ connection[m] = "open" \/ done = {}
                        /\ dev_queues' = dev_queues \ done
                 /\ DisconnectAfter(m, ok)
                 /\ req' = [req EXCEPT ![r] = Idle]
                 /\ Failed(r, "MgrTerminate", s, ~ok \/ connection[m] # "open")
        /\ UNCHANGED <<session, pauses, dev_users, now, nops, provisioned, subscription, billing>>

\* session = ActiveSession.objects.get(id=session_id); session.terminate_session();
\* return True. DoesNotExist is caught (a warning, True is returned); any other
\* exception reaches the outer handler, which returns False.
MgrTerminateStore(r) ==
    LET s == req[r].sid
        m == req[r].mgr
        t == terminate_session(session[s].status)
    IN  /\ req[r].kind = "MgrTerminate" /\ req[r].pc = "store"
        /\ IF ~session[s].exists
           THEN /\ Return(r, "MgrTerminate", s, Closed(m, "True"))
                /\ UNCHANGED <<session, now>>
           ELSE IF t.raised
           THEN /\ Return(r, "MgrTerminate", s, "False")
                /\ UNCHANGED <<session, now>>
           ELSE \E tm \in Clock :
                /\ now' = tm
                /\ session' = [session EXCEPT ![s].status = t.status, ![s].end_time = tm]
                /\ Return(r, "MgrTerminate", s, Closed(m, "True"))
        /\ Disconnect(m)
        /\ req' = [req EXCEPT ![r] = Idle]
        /\ UNCHANGED <<pauses, dev_users, dev_queues, nops, provisioned, subscription, billing>>

\* -------------------------------------- MikrotikSessionManager.pause_session
\* Entering the connection, `session = ActiveSession.objects.get(id=session_id)`
\* and the is_paused test: a missing row or a paused session returns False.
MgrPauseStart(r, m, s) ==
    /\ CanStart(r) /\ MayUse(r, m)
    /\ IF session[s].exists /\ ~is_paused(session[s].status)
       THEN /\ \E c \in Entered(m) : connection' = [connection EXCEPT ![m] = c]
            /\ req' = [req EXCEPT ![r] = [Idle EXCEPT !.kind = "MgrPause", !.sid = s,
                           !.pc = "device", !.mgr = m, !.lstatus = session[s].status]]
            /\ UNCHANGED hist
       ELSE /\ Disconnect(m)
            /\ Return(r, "MgrPause", s, "False")
            /\ UNCHANGED req
    /\ nops' = nops + 1
    /\ UNCHANGED <<session, pauses, dev_users, dev_queues, now, provisioned, subscription, billing>>

\* pause_session as it would be if an empty queue selection were an error
MgrPauseDeviceMissingQueueFails(r) ==
    LET s == req[r].sid
        m == req[r].mgr
    IN  /\ req[r].kind = "MgrPause" /\ req[r].pc = "device"
        /\ \E ok \in BOOLEAN :
            IF ok /\ connection[m] = "open" /\ MatchingQueues(s) # {}
            THEN /\ dev_queues' = SetDisabled(MatchingQueues(s), TRUE)
                 /\ req' = [req EXCEPT ![r].pc = "store1"]
                 /\ UNCHANGED <<connection, hist>>
            ELSE /\ \E done \in SUBSET MatchingQueues(s) :
                        /\ connection[m] = "open" \/ done = {}
                        /\ dev_queues' = SetDisabled(done, TRUE)
                 /\ DisconnectAfter(m, ok)
                 /\ req' = [req EXCEPT ![r] = Idle]
                 /\ Failed(r, "MgrPause", s, ~ok \/ connection[m] # "open")
        /\ UNCHANGED <<session, pauses, dev_users, now, nops, provisioned, subscription, billing>>

\* The queues whose name contains "session-<id>" are set disabled (none: a
\* warning). A device error may come after some of them were set (a reply lost
\* after the device acted raises too); on a closed connection none is.
MgrPauseDevice(r) ==
    LET s == req[r].sid
        m == req[r].mgr
    IN  /\ req[r].kind = "MgrPause" /\ req[r].pc = "device"
        /\ \E ok \in BOOLEAN :
            IF ok /\ connection[m] = "open"
            THEN /\ dev_queues' = SetDisabled(MatchingQueues(s), TRUE)
                 /\ req' = [req EXCEPT ![r].pc = "store1"]
                 /\ UNCHANGED <<connection, hist>>
            ELSE /\ \E done \in SUBSET MatchingQueues(s) :
                        /\ connection[m] = "open" \/ done = {}
                        /\ dev_queues' = SetDisabled(done, TRUE)
                 /\ DisconnectAfter(m, ok)
                 /\ req' = [req EXCEPT ![r] = Idle]
                 /\ Failed(r, "MgrPause", s, ~ok \/ connection[m] # "open")
        /\ UNCHANGED <<session, pauses, dev_users, now, nops, provisioned, subscription, billing>>

\* session.pause_session() on the instance read at the start
MgrPauseStore1(r) ==
    LET s == req[r].sid
        p == pause_session(req[r].lstatus)
    IN  /\ req[r].kind = "MgrPause" /\ req[r].pc = "store1"
        /\ session' = IF p.saved THEN [session EXCEPT ![s].status = p.status] ELSE session
        /\ req' = [req EXCEPT ![r].pc = "store2", ![r].lstatus = p.status]
        /\ UNCHANGED <<pauses, dev_users, dev_queues, connection, now, nops, hist, provisioned, subscription,
                     billing>>

\* PausedSession.objects.create(session=session, ...), then return True
MgrPauseStore2(r) ==
    LET s == req[r].sid
        m == req[r].mgr
    IN  /\ req[r].kind = "MgrPause" /\ req[r].pc = "store2"
        /\ \E tm \in Clock :
            /\ now' = tm
            /\ pauses' = Append(pauses, [session |-> s, paused_at |-> tm, resumed_at |-> NULL])
        /\ Disconnect(m)
        /\ req' = [req EXCEPT ![r] = Idle]
        /\ Return(r, "MgrPause", s, Closed(m, "True"))
        /\ UNCHANGED <<session, dev_users, dev_queues, nops, provisioned, subscription, billing>>

\* ------------------------------------- MikrotikSessionManager.resume_session
\* Entering the connection, the get and the is_paused test: a missing row or a
\* session that is not paused returns False.
MgrResumeStart(r, m, s) ==
    /\ CanStart(r) /\ MayUse(r, m)
    /\ IF session[s].exists /\ is_paused(session[s].status)
       THEN /\ \E c \in Entered(m) : connection' = [connection EXCEPT ![m] = c]
            /\ req' = [req EXCEPT ![r] = [Idle EXCEPT !.kind = "MgrResume", !.sid = s,
                           !.pc = "device", !.mgr = m, !.lstatus = session[s].status]]
            /\ UNCHANGED hist
       ELSE /\ Disconnect(m)
            /\ Return(r, "MgrResume", s, "False")
            /\ UNCHANGED req
    /\ nops' = nops + 1
    /\ UNCHANGED <<session, pauses, dev_users, dev_queues, now, provisioned, subscription, billing>>

\* The queues whose name contains "session-<id>" are set enabled.
MgrResumeDevice(r) ==
    LET s == req[r].sid
        m == req[r].mgr
    IN  /\ req[r].kind = "MgrResume" /\ req[r].pc = "device"
        /\ \E ok \in BOOLEAN :
            IF ok /\ connection[m] = "open"
            THEN /\ dev_queues' = SetDisabled(MatchingQueues(s), FALSE)
                 /\ req' = [req EXCEPT ![r].pc = "store1"]
                 /\ UNCHANGED <<connection, hist>>
            ELSE /\ \E done \in SUBSET MatchingQueues(s) :
                        /\ connection[m] = "open" \/ done = {}
                        /\ dev_queues' = SetDisabled(done, FALSE)
                 /\ DisconnectAfter(m, ok)
                 /\ req' = [req EXCEPT ![r] = Idle]
                 /\ Failed(r, "MgrResume", s, ~ok \/ connection[m] # "open")
        /\ UNCHANGED <<session, pauses, dev_users, now, nops, provisioned, subscription, billing>>

\* session.resume_session() on the instance read at the start
MgrResumeStore1(r) ==
    LET s == req[r].sid
        p == resume_session(req[r].lstatus)
    IN  /\ req[r].kind = "MgrResume" /\ req[r].pc = "store1"
        /\ session' = IF p.saved THEN [session EXCEPT ![s].status = p.status] ELSE session
        /\ req' = [req EXCEPT ![r].pc = "store2", ![r].lstatus = p.status]
        /\ UNCHANGED <<pauses, dev_users, dev_queues, connection, now, nops, hist, provisioned, subscription,
                     billing>>

\* latest_pause = PausedSession.objects.filter(session=session,
\* resumed_at__isnull=True).first(); with none, return True
MgrResumeStore2(r) ==
    LET s == req[r].sid
        m == req[r].mgr
    IN  /\ req[r].kind = "MgrResume" /\ req[r].pc = "store2"
        /\ IF OpenPauses(s) = {}
           THEN /\ Disconnect(m)
                /\ req' = [req EXCEPT ![r] = Idle]
                /\ Return(r, "MgrResume", s, Closed(m, "True"))
           ELSE /\ \E i \in FirstOpen(s) : req' = [req EXCEPT ![r].pc = "store3", ![r].rec = i]
                /\ UNCHANGED <<connection, hist>>
        /\ UNCHANGED <<session, pauses, dev_users, dev_queues, now, nops, provisioned, subscription,
                     billing>>

\* PausedSession.resume(), first half: the instance's resumed_at is None, so it is
\* set to now and the record is saved
PauseRecordClose(r) ==
    /\ req[r].kind \in {"MgrResume", "ViewResume"} /\ req[r].pc = "store3"
    /\ \E tm \in Clock :
        /\ now' = tm
        /\ pauses' = [pauses EXCEPT ![req[r].rec].resumed_at = tm]
    /\ req' = [req EXCEPT ![r].pc = "store4"]
    /\ UNCHANGED <<session, dev_users, dev_queues, connection, nops, hist, provisioned, subscription,
                 billing>>

\* PausedSession.resume(), second half: self.session is fetched from the Store
PauseRecordFetchSession(r) ==
    LET s == req[r].sid
    IN  /\ req[r].kind \in {"MgrResume", "ViewResume"} /\ req[r].pc = "store4"
        /\ req' = [req EXCEPT ![r].pc = "store5", ![r].lstatus = session[s].status]
        /\ UNCHANGED <<session, pauses, dev_users, dev_queues, connection, now, nops, hist, provisioned, subscription,
                     billing>>

\* ... and resume_session() runs on it; then the caller returns
PauseRecordResumeSession(r) ==
    LET s == req[r].sid
        p == resume_session(req[r].lstatus)
    IN  /\ req[r].kind \in {"MgrResume", "ViewResume"} /\ req[r].pc = "store5"
        /\ session' = IF p.saved THEN [session EXCEPT ![s].status = p.status] ELSE session
        /\ IF req[r].kind = "MgrResume"
           THEN Disconnect(req[r].mgr) /\ Return(r, "MgrResume", s, Closed(req[r].mgr, "True"))
           ELSE UNCHANGED connection /\ Return(r, "ViewResume", s, "302")
        /\ req' = [req EXCEPT ![r] = Idle]
        /\ UNCHANGED <<pauses, dev_users, dev_queues, now, nops, provisioned, subscription,
                     billing>>

\* --------------------------------------------------------- SessionPauseView
\* dispatch: test_func reads the session; a missing row is 404, a session that
\* is not active is 403
ViewPauseStart(r, s) ==
    /\ CanStart(r)
    /\ IF session[s].exists /\ is_active(session[s].status)
       THEN /\ req' = [req EXCEPT ![r] = [Idle EXCEPT !.kind = "ViewPause", !.sid = s, !.pc = "get"]]
            /\ UNCHANGED hist
       ELSE /\ Return(r, "ViewPause", s, IF session[s].exists THEN "403" ELSE "404")
            /\ UNCHANGED req
    /\ nops' = nops + 1
    /\ UNCHANGED <<session, pauses, dev_users, dev_queues, connection, now, provisioned, subscription,
                 billing>>

\* post: session = get_object_or_404(...); an invalid form renders the page again
ViewPauseGet(r) ==
    LET s == req[r].sid
    IN  /\ req[r].kind = "ViewPause" /\ req[r].pc = "get"
        /\ \E valid \in BOOLEAN :
            IF valid
            THEN /\ req' = [req EXCEPT ![r].pc = "store1", ![r].lstatus = session[s].status]
                 /\ UNCHANGED hist
            ELSE /\ req' = [req EXCEPT ![r] = Idle]
                 /\ Return(r, "ViewPause", s, "200")
        /\ UNCHANGED <<session, pauses, dev_users, dev_queues, connection, now, nops, provisioned, subscription,
                     billing>>

\* session.pause_session()
ViewPauseStore1(r) ==
    LET s == req[r].sid
        p == pause_session(req[r].lstatus)
    IN  /\ req[r].kind = "ViewPause" /\ req[r].pc = "store1"
        /\ session' = IF p.saved THEN [session EXCEPT ![s].status = p.status] ELSE session
        /\ req' = [req EXCEPT ![r].pc = "store2", ![r].lstatus = p.status]
        /\ UNCHANGED <<pauses, dev_users, dev_queues, connection, now, nops, hist, provisioned, subscription,
                     billing>>

\* PausedSession.objects.create(session=session, ...), then the redirect
ViewPauseStore2(r) ==
    LET s == req[r].sid
    IN  /\ req[r].kind = "ViewPause" /\ req[r].pc = "store2"
        /\ \E tm \in Clock :
            /\ now' = tm
            /\ pauses' = Append(pauses, [session |-> s, paused_at |-> tm, resumed_at |-> NULL])
        /\ req' = [req EXCEPT ![r] = Idle]
        /\ Return(r, "ViewPause", s, "302")
        /\ UNCHANGED <<session, dev_users, dev_queues, connection, nops, provisioned, subscription,
                     billing>>

\* -------------------------------------------------------- SessionResumeView
\* dispatch: test_func wants a paused session
ViewResumeStart(r, s) ==
    /\ CanStart(r)
    /\ IF session[s].exists /\ is_paused(session[s].status)
       THEN /\ req' = [req EXCEPT ![r] = [Idle EXCEPT !.kind = "ViewResume", !.sid = s, !.pc = "get"]]
            /\ UNCHANGED hist
       ELSE /\ Return(r, "ViewResume", s, IF session[s].exists THEN "403" ELSE "404")
            /\ UNCHANGED req
    /\ nops' = nops + 1
    /\ UNCHANGED <<session, pauses, dev_users, dev_queues, connection, now, provisioned, subscription,
                 billing>>

\* post: session = get_object_or_404(...)
ViewResumeGet(r) ==
    LET s == req[r].sid
    IN  /\ req[r].kind = "ViewResume" /\ req[r].pc = "get"
        /\ req' = [req EXCEPT ![r].pc = "store1", ![r].lstatus = session[s].status]
        /\ UNCHANGED <<session, pauses, dev_users, dev_queues, connection, now, nops, hist, provisioned, subscription,
                     billing>>

\* session.resume_session()
ViewResumeStore1(r) ==
    LET s == req[r].sid
        p == resume_session(req[r].lstatus)
    IN  /\ req[r].kind = "ViewResume" /\ req[r].pc = "store1"
        /\ session' = IF p.saved THEN [session EXCEPT ![s].status = p.status] ELSE session
        /\ req' = [req EXCEPT ![r].pc = "store2", ![r].lstatus = p.status]
        /\ UNCHANGED <<pauses, dev_users, dev_queues, connection, now, nops, hist, provisioned, subscription,
                     billing>>

\* latest_pause = PausedSession.objects.filter(...).last(); with none, the redirect
ViewResumeStore2(r) ==
    LET s == req[r].sid
    IN  /\ req[r].kind = "ViewResume" /\ req[r].pc = "store2"
        /\ IF OpenPauses(s) = {}
           THEN /\ req' = [req EXCEPT ![r] = Idle]
                /\ Return(r, "ViewResume", s, "302")
           ELSE /\ \E i \in LastOpen(s) : req' = [req EXCEPT ![r].pc = "store3", ![r].rec = i]
                /\ UNCHANGED hist
        /\ UNCHANGED <<session, pauses, dev_users, dev_queues, connection, now, nops, provisioned, subscription,
                     billing>>

\* ----------------------------------------------------- SessionTerminateView
\* dispatch: test_func wants an active session
ViewTerminateStart(r, s) ==
    /\ CanStart(r)
    /\ IF session[s].exists /\ is_active(session[s].status)
       THEN /\ req' = [req EXCEPT ![r] = [Idle EXCEPT !.kind = "ViewTerminate", !.sid = s, !.pc = "get"]]
            /\ UNCHANGED hist
       ELSE /\ Return(r, "ViewTerminate", s, IF session[s].exists THEN "403" ELSE "404")
            /\ UNCHANGED req
    /\ nops' = nops + 1
    /\ UNCHANGED <<session, pauses, dev_users, dev_queues, connection, now, provisioned, subscription,
                 billing>>

\* post: the session is read and session.terminate_session() runs; an exception
\* is not caught by the view (500)
ViewTerminatePost(r) ==
    LET s == req[r].sid
        t == terminate_session(session[s].status)
    IN  /\ req[r].kind = "ViewTerminate" /\ req[r].pc = "get"
        /\ IF t.raised
           THEN /\ Return(r, "ViewTerminate", s, "500")
                /\ UNCHANGED <<session, now>>
           ELSE \E tm \in Clock :
                /\ now' = tm
                /\ session' = [session EXCEPT ![s].status = t.status, ![s].end_time = tm]
                /\ Return(r, "ViewTerminate", s, "302")
        /\ req' = [req EXCEPT ![r] = Idle]
        /\ UNCHANGED <<pauses, dev_users, dev_queues, connection, nops, provisioned, subscription,
                     billing>>

\* ---------------------------- MikrotikSessionManager.update_session_data
\* The context manager is entered (the result of connect() is not looked at, and
\* no device call follows); session = ActiveSession.objects.get(id=session_id): a
\* missing row returns False
MgrUpdateStart(r, m, s, d) ==
    /\ CanStart(r) /\ MayUse(r, m)
    /\ IF session[s].exists
       THEN /\ \E c \in Entered(m) : connection' = [connection EXCEPT ![m] = c]
            /\ req' = [req EXCEPT ![r] = [Idle EXCEPT !.kind = "MgrUpdate", !.sid = s, !.pc = "store1",
                           !.mgr = m, !.lstatus = session[s].status,
                           !.lend = session[s].end_time, !.val = d]]
            /\ UNCHANGED hist
       ELSE /\ Disconnect(m)
            /\ Return(r, "MgrUpdate", s, "False")
            /\ UNCHANGED req
    /\ nops' = nops + 1
    /\ UNCHANGED <<session, pauses, dev_users, dev_queues, now, provisioned, subscription, billing>>

\* session.data_used_mb = data_used_mb; session.save() writes every field of the
\* instance
MgrUpdateStore1(r) ==
    LET s == req[r].sid
    IN  /\ req[r].kind = "MgrUpdate" /\ req[r].pc = "store1"
        /\ session' = [session EXCEPT ![s] = [exists |-> TRUE, status |-> req[r].lstatus,
                                end_time |-> req[r].lend, data_used |-> req[r].val]]
        /\ req' = [req EXCEPT ![r].pc = "sub"]
        /\ UNCHANGED <<pauses, dev_users, dev_queues, connection, now, nops, hist, provisioned, subscription,
                     billing>>

\* `if session.subscription:` fetches the subscription row, if the session has one
MgrUpdateSub(r) ==
    LET s == req[r].sid
    IN  /\ req[r].kind = "MgrUpdate" /\ req[r].pc = "sub"
        /\ IF s \in Linked
           THEN /\ req' = [req EXCEPT ![r].pc = "store2", ![r].lsub = subscription]
                /\ UNCHANGED <<connection, hist>>
           ELSE /\ Disconnect(req[r].mgr)
                /\ Return(r, "MgrUpdate", s, Closed(req[r].mgr, "True"))
                /\ req' = [req EXCEPT ![r] = Idle]
        /\ UNCHANGED <<session, pauses, dev_users, dev_queues, now, nops, provisioned, subscription,
                     billing>>

\* session.subscription.data_used_mb += data_used_mb; session.subscription.save()
\* writes every field of the instance; return True
MgrUpdateStore2(r) ==
    LET s == req[r].sid
    IN  /\ req[r].kind = "MgrUpdate" /\ req[r].pc = "store2"
        /\ subscription' = [req[r].lsub EXCEPT !.data_used = @ + req[r].val]
        /\ Disconnect(req[r].mgr)
        /\ Return(r, "MgrUpdate", s, Closed(req[r].mgr, "True"))
        /\ req' = [req EXCEPT ![r] = Idle]
        /\ UNCHANGED <<session, pauses, dev_users, dev_queues, now, nops, provisioned, billing>>

\* ------------------------------------------------------- SessionWebhookView
\* session = ActiveSession.objects.get(mikrotik_session_id=session_id): a missing
\* row is 404; the instance holds every field of the row as read
WebhookStart(r, s, action, d) ==
    /\ CanStart(r)
    /\ IF session[s].exists
       THEN /\ req' = [req EXCEPT ![r] = [Idle EXCEPT !.kind = "Webhook", !.sid = s, !.pc = "apply",
                           !.lstatus = session[s].status, !.lend = session[s].end_time,
                           !.act = action, !.val = d]]
            /\ UNCHANGED hist
       ELSE /\ Return(r, "Webhook", s, "404")
            /\ UNCHANGED req
    /\ nops' = nops + 1
    /\ UNCHANGED <<session, pauses, dev_users, dev_queues, connection, now, provisioned, subscription,
                 billing>>

\* action 'update': session.data_used_mb = data_used; session.save() writes every
\* field of the instance. action 'terminate': session.terminate_session(); an
\* exception is answered 400.
WebhookApply(r) ==
    LET s == req[r].sid
        t == terminate_session(req[r].lstatus)
    IN  /\ req[r].kind = "Webhook" /\ req[r].pc = "apply"
        /\ IF req[r].act = "update"
           THEN /\ session' = [session EXCEPT ![s] = [exists |-> TRUE, status |-> req[r].lstatus,
                                   end_time |-> req[r].lend, data_used |-> req[r].val]]
                /\ Return(r, "Webhook", s, "200")
                /\ UNCHANGED now
           ELSE IF t.raised
           THEN /\ Return(r, "Webhook", s, "400")
                /\ UNCHANGED <<session, now>>
           ELSE \E tm \in Clock :
                /\ now' = tm
                /\ session' = [session EXCEPT ![s].status = t.status, ![s].end_time = tm]
                /\ Return(r, "Webhook", s, "200")
        /\ req' = [req EXCEPT ![r] = Idle]
        /\ UNCHANGED <<pauses, dev_users, dev_queues, connection, nops, provisioned, subscription,
                     billing>>

\* ===================================================================
\* Properties
\* ===================================================================
PauseKinds == {"MgrPause", "ViewPause"}
ResumeKinds == {"MgrResume", "ViewResume"}
TerminateKinds == {"MgrTerminate", "ViewTerminate", "Webhook"}

\* no request is running / none is running on session s
Quiet == \A r \in Slots : ~InFlight(r)
QuietOn(s) == \A r \in Slots : InFlight(r) => req[r].sid # s

\* the request reported success: True from the manager, the success redirect
\* from a view
Succeeded(e) == e.ret \in {"True", "302"}

\* completed requests i < j ran at the same time: j's worker was busy when i
\* returned, and what it was running is what returned as j
Overlap(i, j) ==
    /\ i < j
    /\ hist[j].slot \in hist[i].conc
    /\ \A k \in (i + 1)..(j - 1) : hist[k].slot # hist[j].slot

\* the queue of session s exists and is enabled exactly when s is active
QueueMatches(s) ==
    \E q \in dev_queues :
        /\ q.name = QueueName(s, UserOf(s))
        /\ q.disabled = (session[s].status = "paused")

\* No session is ever stored as terminated and no end_time is ever stored:
\* terminate_session raises before it assigns (an invariant of Spec).
NeverTerminated ==
    \A s \in SessionIds : session[s].status # "terminated" /\ session[s].end_time = NULL

\* C2: every session has at most one PauseRecord whose resumed_at is null, in
\* every reachable state.
C2_AtMostOneOpenPause ==
    \A s \in SessionIds : Cardinality(OpenPauses(s)) <= 1

\* C3: whenever no request is running on a session, it is paused if and only if
\* it has an open PauseRecord (and so active only if it has none).
C3_PausedIffOpenPause ==
    \A s \in SessionIds :
        session[s].exists /\ QuietOn(s) =>
            (session[s].status = "paused" <=> OpenPauses(s) # {})

\* C4: of a Pause and a Resume that ran at the same time on one session, not
\* both report success (one wins, the other returns a conflict), and once both
\* have returned the session has a single consistent state: at most one open
\* PauseRecord, and one exactly when it is paused.
C4_PauseResumeRaceOneWins ==
    \A i \in 1..Len(hist), j \in 1..Len(hist) :
        ( /\ Overlap(i, j)
          /\ hist[i].sid = hist[j].sid
          /\ \/ hist[i].kind \in PauseKinds /\ hist[j].kind \in ResumeKinds
             \/ hist[i].kind \in ResumeKinds /\ hist[j].kind \in PauseKinds )
        => /\ ~(Succeeded(hist[i]) /\ Succeeded(hist[j]))
           /\ (j = Len(hist) /\ QuietOn(hist[j].sid)) =>
                 /\ Cardinality(OpenPauses(hist[j].sid)) <= 1
                 /\ session[hist[j].sid].status = "paused" <=> OpenPauses(hist[j].sid) # {}

\* C6: a session row that is active is backed by its queue on the device; in
\* particular once create_session has returned for a session (whatever it
\* returned), an active row for it has its queue.
C6_ActiveRowHasQueue ==
    \A s \in SessionIds :
        ( /\ session[s].exists /\ session[s].status = "active"
          /\ \E i \in 1..Len(hist) : hist[i].kind = "MgrCreate" /\ hist[i].sid = s )
        => HasQueue(s)

\* C8: when two Pause requests on a provisioned session ran one after the other,
\* nothing else running, and the first paused it, then the second is not
\* refused or failed, and the session is paused with exactly one open
\* PauseRecord and its queue disabled.
C8_PauseTwiceIsNoOp ==
    \A i \in 1..(Len(hist) - 1) :
        ( /\ i + 1 = Len(hist) /\ Quiet
          /\ hist[i].kind \in PauseKinds /\ hist[i + 1].kind \in PauseKinds
          /\ hist[i].sid = hist[i + 1].sid
          /\ hist[i].conc = {} /\ hist[i + 1].conc = {}
          /\ hist[i].sid \in provisioned
          /\ Succeeded(hist[i]) )
        => /\ Succeeded(hist[i + 1])
           /\ session[hist[i].sid].status = "paused"
           /\ Cardinality(OpenPauses(hist[i].sid)) = 1
           /\ QueueMatches(hist[i].sid)

\* C10: whenever no request is running (nothing is left that could still bring
\* the device in line), every session create_session has provisioned is active
\* or paused if and only if its one queue is on the device, enabled if the
\* session is active and disabled if it is paused.
C10_DeviceMatchesStore ==
    Quiet =>
        \A s \in provisioned :
            session[s].exists =>
                ( session[s].status \in {"active", "paused"} <=> QueueMatches(s) )

\* the last completed request, when it ran alone and nothing is in flight
LastAlone(i) == i = Len(hist) /\ Quiet /\ hist[i].conc = {}

\* the request ended in its device step: the one device call it made failed
DeviceCallFailed(e) == e.at = "device" /\ e.fault

\* C11: when the device call of a manager Pause failed, the session is still
\* left paused in the Store with an open PausedSession (the pause intent is kept)
C11_FailedPauseStillPausesStore ==
    \A i \in 1..Len(hist) :
        (LastAlone(i) /\ hist[i].kind = "MgrPause" /\ DeviceCallFailed(hist[i]))
        => /\ session[hist[i].sid].status = "paused"
           /\ OpenPauses(hist[i].sid) # {}

\* C12: a manager Pause on a provisioned session whose queue disable met a
\* device error is tried again: the call ends successfully with the session
\* paused and its queue disabled
C12_PauseRetriesDeviceError ==
    \A i \in 1..Len(hist) :
        (LastAlone(i) /\ hist[i].kind = "MgrPause" /\ hist[i].sid \in provisioned
            /\ hist[i].at \in {"device", "store2"})
        => /\ Succeeded(hist[i])
           /\ session[hist[i].sid].status = "paused"
           /\ \E q \in dev_queues : q.name = QueueName(hist[i].sid, UserOf(hist[i].sid)) /\ q.disabled

\* C13: when create_session for a session got past adding the credential (its
\* queue add then failed or succeeded) and is run again for the same session,
\* the second run succeeds and the device holds the session's credential and
\* its one queue
C13_CreateRerunSkipsExisting ==
    \A i \in 1..(Len(hist) - 1) :
        (/\ LastAlone(i + 1) /\ hist[i].conc = {}
         /\ hist[i].kind = "MgrCreate" /\ hist[i + 1].kind = "MgrCreate"
         /\ hist[i].sid = hist[i + 1].sid
         /\ hist[i].at = "queue")
        => /\ Succeeded(hist[i + 1])
           /\ UserOf(hist[i].sid) \in dev_users
           /\ Cardinality({q \in dev_queues : q.name = QueueName(hist[i].sid, UserOf(hist[i].sid))}) = 1

\* C14: create_session for a session whose subscription is not active, or has
\* reached its connection limit, is refused: it does not provision the device
\* and return True (the subscription's status and expiry do not change while
\* requests run)
C14_CreateRefusedWithoutAllowance ==
    \A i \in 1..Len(hist) :
        (/\ hist[i].kind = "MgrCreate" /\ hist[i].sid \in Linked
         /\ session[hist[i].sid].exists
         /\ ~subscription_is_active(subscription) \/ has_reached_connection_limit(subscription))
        => ~Succeeded(hist[i])

\* the completed requests of the kinds K on a stored session of the
\* subscription that returned success
SucceededOnLinked(K) ==
    {i \in 1..Len(hist) : /\ hist[i].kind \in K /\ Succeeded(hist[i])
                          /\ hist[i].sid \in Linked /\ session[hist[i].sid].exists}

\* C15: with no request in flight, the subscription's current_connections
\* (0 at the start) has grown by one for every successful create_session and
\* shrunk by one for every successful Terminate on its sessions
C15_ConnectionCountTracksSessions ==
    Quiet => subscription.current_connections =
                 Cardinality(SucceededOnLinked({"MgrCreate"})) - Cardinality(SucceededOnLinked(TerminateKinds))

\* C16: when the only requests were two successful update_session_data calls
\* delivering the same report (same session of the subscription, same data),
\* one after the other or overlapping, the session's and the subscription's
\* data used (0 at the start) have grown by that data once
C16_SameReportCountedOnce ==
    (/\ Quiet /\ Len(hist) = 2
     /\ \A i \in 1..2 : hist[i].kind = "MgrUpdate" /\ Succeeded(hist[i]) /\ hist[i].sid \in Linked
     /\ hist[1].sid = hist[2].sid /\ hist[1].val = hist[2].val)
    => /\ session[hist[1].sid].data_used = hist[1].val
       /\ subscription.data_used = hist[1].val

\* the data reported by the first n completed requests
RECURSIVE SumVal(_)
SumVal(n) == IF n = 0 THEN 0 ELSE SumVal(n - 1) + hist[n].val

\* C17: when the only requests were successful update_session_data calls on one
\* session of the subscription, run one after the other, the session's and the
\* subscription's data used (0 at the start) have both grown by the sum of the
\* data reported
C17_UpdatesAccumulate ==
    (/\ Quiet /\ Len(hist) >= 1
     /\ \A i \in 1..Len(hist) : /\ hist[i].kind = "MgrUpdate" /\ Succeeded(hist[i])
                                 /\ hist[i].sid \in Linked /\ hist[i].sid = hist[1].sid
                                 /\ hist[i].conc = {})
    => /\ session[hist[1].sid].data_used = SumVal(Len(hist))
       /\ subscription.data_used = SumVal(Len(hist))

\* C18: no step lowers the data used of a stored session or of the subscription
C18_DataUsedNeverDecreases ==
    [][/\ \A s \in SessionIds : session[s].exists => session'[s].data_used >= session[s].data_used
       /\ subscription'.data_used >= subscription.data_used]_vars

\* requests i and i + 1 were the last two, on one stored session, each run alone
LastTwoAlone(i) ==
    /\ LastAlone(i + 1) /\ hist[i].conc = {}
    /\ hist[i].sid = hist[i + 1].sid
    /\ session[hist[i].sid].exists

\* C19: a manager Terminate on a stored session whose credential and queue are
\* already gone from the device (an earlier Terminate got past removing them),
\* and which the device does not fail, succeeds, and the session is left
\* terminated with its end_time set
C19_TerminateWithoutQueueSucceeds ==
    \A i \in 1..(Len(hist) - 1) :
        (/\ LastTwoAlone(i)
         /\ hist[i].kind = "MgrTerminate" /\ hist[i].at = "store"
         /\ hist[i + 1].kind = "MgrTerminate" /\ hist[i + 1].at = "store")
        => /\ Succeeded(hist[i + 1])
           /\ session[hist[i].sid].status = "terminated"
           /\ session[hist[i].sid].end_time # NULL

\* C20: after a successful Pause and then a manager Terminate that got to its
\* Store step, the session has no open PausedSession, and its records were
\* closed at the session's end_time
C20_TerminateClosesPauseRecord ==
    \A i \in 1..(Len(hist) - 1) :
        (/\ LastTwoAlone(i)
         /\ hist[i].kind \in PauseKinds /\ Succeeded(hist[i])
         /\ hist[i + 1].kind = "MgrTerminate" /\ hist[i + 1].at = "store")
        => /\ OpenPauses(hist[i].sid) = {}
           /\ \A k \in 1..Len(pauses) :
                  pauses[k].session = hist[i].sid => pauses[k].resumed_at = session[hist[i].sid].end_time

\* the workers running a call of manager m
Using(m) == {r \in Slots : InFlight(r) /\ req[r].mgr = m}

C26_ReturnKeepsOthersConnection ==
    [][\A r \in Slots :
          (/\ req[r].mgr \in Managers /\ req'[r].kind = "idle"
           /\ Using(req[r].mgr) \ {r} # {})
          => connection'[req[r].mgr] = connection[req[r].mgr]]_vars

\* C21: when a Resume has succeeded, is the last request to complete, and no
\* Pause ran while it did, the session is active, none of its PausedSession
\* records is open, and each was closed no earlier than it was opened
C21_ResumeActivatesAndCloses ==
    \A i \in 1..Len(hist) :
        (/\ i = Len(hist) /\ Quiet
         /\ hist[i].kind \in ResumeKinds /\ Succeeded(hist[i])
         /\ \A k \in 1..(i - 1) : Overlap(k, i) => hist[k].kind \notin PauseKinds)
        => /\ session[hist[i].sid].status = "active"
           /\ OpenPauses(hist[i].sid) = {}
           /\ \A k \in 1..Len(pauses) :
                  pauses[k].session = hist[i].sid => pauses[k].resumed_at >= pauses[k].paused_at

\* a manager Pause was the last request, on a session with no queue on the
\* device, got past its first step (the session was stored and not paused) and
\* met no failing device call
PausedWithoutQueue(i) ==
    /\ i = Len(hist) /\ Quiet
    /\ hist[i].kind = "MgrPause"
    /\ MatchingQueues(hist[i].sid) = {}
    /\ hist[i].at # "idle" /\ ~hist[i].fault

\* C25: with requests run one at a time, a manager Pause of a stored, not yet
\* paused session that has no queue on the device succeeds unless the device
\* call itself fails: it returns True, the session is paused and has exactly
\* one open PausedSession
C25_PauseWithoutQueueSucceeds ==
    \A i \in 1..Len(hist) :
        PausedWithoutQueue(i)
        => /\ Succeeded(hist[i])
           /\ session[hist[i].sid].status = "paused"
           /\ Cardinality(OpenPauses(hist[i].sid)) = 1

\* C27: a step of a manager Pause, Resume or Terminate for one session, after
\* which the request goes on (no device error), leaves
\* the queue and the credential of every other stored, non-terminated session
\* as they were: the queue stays, with the same disabled flag, and the
\* credential stays
C27_OtherSessionUntouched ==
    [][\A r \in Slots : \A b \in SessionIds :
          (/\ req[r].kind \in {"MgrPause", "MgrResume", "MgrTerminate"}
           /\ req'[r] # req[r] /\ InFlight(r)'
           /\ b # req[r].sid
           /\ session[b].exists /\ session[b].status # "terminated")
          => /\ \A q \in dev_queues : q.name = QueueName(b, UserOf(b)) => q \in dev_queues'
             /\ UserOf(b) \in dev_users => UserOf(b) \in dev_users']_vars

\* C28: a manager Terminate that failed at the queue step, after the credential
\* was removed, leaves the session not terminated; the next Terminate of that
\* session, which the device does not fail, succeeds, leaves no queue of the
\* session and marks it terminated
C28_TerminateRetryCompletes ==
    \A i \in 1..(Len(hist) - 1) :
        (/\ LastTwoAlone(i)
         /\ hist[i].kind = "MgrTerminate" /\ hist[i].at = "queue" /\ ~Succeeded(hist[i])
         /\ hist[i + 1].kind = "MgrTerminate" /\ hist[i + 1].at = "store")
        => /\ Succeeded(hist[i + 1])
           /\ MatchingQueues(hist[i].sid) = {}
           /\ session[hist[i].sid].status = "terminated"

\* C25, its case: such a Pause has returned True
C25_Witness ==
    \E i \in 1..Len(hist) : PausedWithoutQueue(i) /\ Succeeded(hist[i])

\* ------------------------------------------------- the subscription's views
\* UserSubscription.pause / unpause: the status test and save(update_fields=['status'])
pause(sub) == IF sub.status = "active" THEN [sub EXCEPT !.status = "paused"] ELSE sub
unpause(sub) == IF sub.status = "paused" THEN [sub EXCEPT !.status = "active"] ELSE sub

\* SubscriptionPauseView: test_func lets the owner through when
\* subscription.is_active (403 otherwise); post loads the row and calls pause()
SubscriptionPauseView ==
    /\ Quiet
    /\ \E tm \in Clock :
        /\ now' = tm
        /\ subscription' = IF subscription.status = "active" /\ subscription.expiry_date >= tm
                           THEN pause(subscription)
                           ELSE subscription
    /\ UNCHANGED <<session, pauses, dev_users, dev_queues, connection, req, nops, hist, provisioned,
                 billing>>

\* SubscriptionResumeView: test_func lets the owner through when
\* subscription.is_paused (403 otherwise); post loads the row and calls
\* unpause(). Neither reads expiry_date.
SubscriptionResumeView ==
    /\ Quiet
    /\ subscription' = IF is_sub_paused(subscription) THEN unpause(subscription) ELSE subscription
    /\ UNCHANGED <<session, pauses, dev_users, dev_queues, connection, req, now, nops, hist, provisioned,
                 billing>>

\* C23: a subscription whose status is active has not passed its expiry time
C23_ActiveSubscriptionUnexpired ==
    subscription.status = "active" => subscription.expiry_date >= now

\* ------------------------------------------------------ the access token
\* minutes > 50: the age beyond which mpesa_access_token refreshes the token
TokenLifetime == 50

\* what generate_access_token_request gives: a response with status 200 and a
\* token, a response with another status, or an exception (MpesaConnectionError,
\* or the AttributeError of ex.message)
Responses == {"200", "non200", "raise"}

\* the mpesa_access_token calls other than c's that are running
OtherCalls(c) == {call[d].id : d \in {e \in Callers \ {c} : call[e].pc # "idle"}}

\* caller c's call ends, returning a token or raising
Ended(c, st, ret, tok) ==
    /\ calls' = Append(calls, [id |-> st.id, saw |-> st.saw, r1 |-> st.r1, r2 |-> st.r2,
                               sent |-> st.sent, wrote |-> st.wrote, ret |-> ret,
                               tok |-> tok, conc |-> OtherCalls(c)])
    /\ call' = [call EXCEPT ![c] = IdleCall]

\* a call of mpesa_access_token begins
MpesaAccessTokenStart(c) ==
    /\ call[c].pc = "idle"
    /\ nops < MaxCalls
    /\ nops' = nops + 1
    /\ call' = [call EXCEPT ![c] = [IdleCall EXCEPT !.pc = "first", !.id = nops + 1]]
    /\ UNCHANGED <<tokens, issued, calls, subs, buy, now, lifecycle>>

\* access_token = AccessToken.objects.first(); none, or older than 50 minutes:
\* generate_access_token(); otherwise return access_token.token
MpesaAccessTokenFirst(c) ==
    /\ call[c].pc = "first"
    /\ IF tokens = <<>>
       THEN /\ call' = [call EXCEPT ![c].pc = "request", ![c].saw = "missing"]
            /\ UNCHANGED <<calls, now>>
       ELSE \E tm \in Clock :
            /\ now' = tm
            /\ IF tm - Head(tokens).created_at > TokenLifetime
               THEN /\ call' = [call EXCEPT ![c].pc = "request", ![c].saw = "expired"]
                    /\ UNCHANGED calls
               ELSE Ended(c, [call[c] EXCEPT !.saw = "fresh"], "token", Head(tokens).token)
    /\ UNCHANGED <<tokens, issued, subs, buy, nops, lifecycle>>

\* r = generate_access_token_request(): status 200 goes on to the table, another
\* status to the retry, an exception leaves generate_access_token
GenerateAccessTokenRequest(c) ==
    /\ call[c].pc = "request"
    /\ \E resp \in Responses :
        LET st == [call[c] EXCEPT !.r1 = resp, !.sent = @ + 1]
        IN  CASE resp = "200" ->
                    /\ issued' = issued + 1
                    /\ call' = [call EXCEPT ![c] = [st EXCEPT !.pc = "delete", !.tok = issued + 1]]
                    /\ UNCHANGED calls
              [] resp = "non200" ->
                    /\ call' = [call EXCEPT ![c] = [st EXCEPT !.pc = "retry"]]
                    /\ UNCHANGED <<issued, calls>>
              [] resp = "raise" ->
                    /\ Ended(c, st, "raised", 0)
                    /\ UNCHANGED issued
    /\ UNCHANGED <<tokens, subs, buy, now, nops, lifecycle>>

\* a retry that empties the AccessToken table before it raises MpesaError: the
\* behaviour C30 rules out
GenerateAccessTokenRetryAfterDelete(c) ==
    /\ call[c].pc = "retry"
    /\ \E resp \in Responses :
        LET st == [call[c] EXCEPT !.r2 = resp, !.sent = @ + 1]
        IN  CASE resp = "200" ->
                    /\ issued' = issued + 1
                    /\ call' = [call EXCEPT ![c] = [st EXCEPT !.pc = "delete", !.tok = issued + 1]]
                    /\ UNCHANGED <<calls, tokens>>
              [] resp = "non200" ->
                    /\ tokens' = <<>>
                    /\ Ended(c, [st EXCEPT !.wrote = TRUE], "MpesaError", 0)
                    /\ UNCHANGED issued
              [] resp = "raise" ->
                    /\ Ended(c, st, "raised", 0)
                    /\ UNCHANGED <<issued, tokens>>
    /\ UNCHANGED <<subs, buy, now, nops, lifecycle>>

\* if r.status_code != 200: r = generate_access_token_request(); if it is not
\* 200 again: raise MpesaError
GenerateAccessTokenRetry(c) ==
    /\ call[c].pc = "retry"
    /\ \E resp \in Responses :
        LET st == [call[c] EXCEPT !.r2 = resp, !.sent = @ + 1]
        IN  CASE resp = "200" ->
                    /\ issued' = issued + 1
                    /\ call' = [call EXCEPT ![c] = [st EXCEPT !.pc = "delete", !.tok = issued + 1]]
                    /\ UNCHANGED calls
              [] resp = "non200" ->
                    /\ Ended(c, st, "MpesaError", 0)
                    /\ UNCHANGED issued
              [] resp = "raise" ->
                    /\ Ended(c, st, "raised", 0)
                    /\ UNCHANGED issued
    /\ UNCHANGED <<tokens, subs, buy, now, nops, lifecycle>>

\* AccessToken.objects.all().delete()
GenerateAccessTokenDelete(c) ==
    /\ call[c].pc = "delete"
    /\ tokens' = <<>>
    /\ call' = [call EXCEPT ![c].pc = "create", ![c].wrote = TRUE]
    /\ UNCHANGED <<issued, calls, subs, buy, now, nops, lifecycle>>

\* access_token = AccessToken.objects.create(token=token), created_at being
\* the time of the insert; mpesa_access_token returns access_token.token
GenerateAccessTokenCreate(c) ==
    /\ call[c].pc = "create"
    /\ \E tm \in Clock :
        /\ now' = tm
        /\ tokens' = Append(tokens, [token |-> call[c].tok, created_at |-> tm])
    /\ Ended(c, call[c], "token", call[c].tok)
    /\ UNCHANGED <<issued, subs, buy, nops, lifecycle>>

\* call i found the stored token missing or expired
NeededRefresh(i) == calls[i].saw \in {"missing", "expired"}

\* C24: of two calls of mpesa_access_token that ran at the same time, both
\* having found the token missing or expired and both having returned a token,
\* only one sent a token request (one request in all), and both returned the
\* same token
C24_OneRefreshForConcurrentCallers ==
    \A i \in 1..Len(calls) : \A j \in 1..Len(calls) :
        (/\ calls[j].id \in calls[i].conc
         /\ NeededRefresh(i) /\ NeededRefresh(j)
         /\ calls[i].ret = "token" /\ calls[j].ret = "token")
        => /\ calls[i].sent + calls[j].sent = 1
           /\ calls[i].tok = calls[j].tok

\* C30: no call sent more than two token requests, and a call whose request
\* and retry both got a status other than 200 raised MpesaError and neither
\* deleted nor created an AccessToken row
C30_FailedRefreshKeepsStoredToken ==
    \A i \in 1..Len(calls) :
        /\ calls[i].sent <= 2
        /\ (calls[i].r1 = "non200" /\ calls[i].r2 = "non200")
           => calls[i].ret = "MpesaError" /\ ~calls[i].wrote

\* C30, its case: a call that found the stored token expired got two
\* responses other than 200 and raised, and the expired token is still stored
C30_Witness ==
    \E i \in 1..Len(calls) :
        /\ calls[i].saw = "expired" /\ calls[i].r1 = "non200" /\ calls[i].r2 = "non200"
        /\ calls[i].ret = "MpesaError" /\ calls[i].sent = 2
        /\ tokens # <<>> /\ issued = 0

\* --------------------------------------------------- the purchase endpoint
\* package.duration_days of the package bought
duration_days == 1

\* UserSubscription.objects.filter(user=..., status='active', expiry_date__gte=t)
ActiveSubs(t) == {i \in 1..Len(subs) : subs[i].status = "active" /\ subs[i].expiry_date >= t}

\* CreateSubscriptionAPIView.post, up to the test of active_sub: a row found
\* answers 400, none goes on to the create
CreateSubscriptionCheck(p) ==
    /\ buy[p] = "idle"
    /\ nops < MaxCalls
    /\ nops' = nops + 1
    /\ \E tm \in Clock :
        /\ now' = tm
        /\ buy' = [buy EXCEPT ![p] = IF ActiveSubs(tm) # {} THEN "idle" ELSE "create"]
    /\ UNCHANGED <<tokens, call, issued, calls, subs, lifecycle>>

\* UserSubscription.objects.create(..., expiry_date=now + duration_days, status='active')
CreateSubscriptionCreate(p) ==
    /\ buy[p] = "create"
    /\ \E tm \in Clock :
        /\ now' = tm
        /\ subs' = Append(subs, [status |-> "active", expiry_date |-> tm + duration_days])
    /\ buy' = [buy EXCEPT ![p] = "idle"]
    /\ UNCHANGED <<tokens, call, issued, calls, nops, lifecycle>>

\* C29: the user never has two subscriptions that are both active and unexpired
C29_AtMostOneActiveSubscription ==
    Cardinality(ActiveSubs(now)) <= 1

Next ==
    \/ \E s \in SessionIds : CreateRow(s)
    \/ \E r \in Slots, m \in Managers, s \in SessionIds : MgrCreateStart(r, m, s)
    \/ \E r \in Slots : MgrCreateUser(r)
    \/ \E r \in Slots : MgrCreateQueue(r)
    \/ \E r \in Slots, m \in Managers, s \in SessionIds : MgrTerminateStart(r, m, s)
    \/ \E r \in Slots : MgrTerminateUser(r)
    \/ \E r \in Slots : MgrTerminateQueue(r)
    \/ \E r \in Slots : MgrTerminateStore(r)
    \/ \E r \in Slots, m \in Managers, s \in SessionIds : MgrPauseStart(r, m, s)
    \/ \E r \in Slots : MgrPauseDevice(r)
    \/ \E r \in Slots : MgrPauseStore1(r)
    \/ \E r \in Slots : MgrPauseStore2(r)
    \/ \E r \in Slots, m \in Managers, s \in SessionIds : MgrResumeStart(r, m, s)
    \/ \E r \in Slots : MgrResumeDevice(r)
    \/ \E r \in Slots : MgrResumeStore1(r)
    \/ \E r \in Slots : MgrResumeStore2(r)
    \/ \E r \in Slots : PauseRecordClose(r)
    \/ \E r \in Slots : PauseRecordFetchSession(r)
    \/ \E r \in Slots : PauseRecordResumeSession(r)
    \/ \E r \in Slots, s \in SessionIds : ViewPauseStart(r, s)
    \/ \E r \in Slots : ViewPauseGet(r)
    \/ \E r \in Slots : ViewPauseStore1(r)
    \/ \E r \in Slots : ViewPauseStore2(r)
    \/ \E r \in Slots, s \in SessionIds : ViewResumeStart(r, s)
    \/ \E r \in Slots : ViewResumeGet(r)
    \/ \E r \in Slots : ViewResumeStore1(r)
    \/ \E r \in Slots : ViewResumeStore2(r)
    \/ \E r \in Slots, s \in SessionIds : ViewTerminateStart(r, s)
    \/ \E r \in Slots : ViewTerminatePost(r)
    \/ \E r \in Slots, m \in Managers, s \in SessionIds, d \in 1..MaxData : MgrUpdateStart(r, m, s, d)
    \/ \E r \in Slots : MgrUpdateStore1(r)
    \/ \E r \in Slots : MgrUpdateSub(r)
    \/ \E r \in Slots : MgrUpdateStore2(r)
    \/ \E r \in Slots, s \in SessionIds, d \in 0..MaxData : WebhookStart(r, s, "update", d)
    \/ \E r \in Slots, s \in SessionIds : WebhookStart(r, s, "terminate", 0)
    \/ \E r \in Slots : WebhookApply(r)

Spec == Init /\ [][Next]_vars

\* The same requests, started from the state a successful pause_session(1)
\* leaves behind: session 1 provisioned and paused, its queue disabled, its
\* PausedSession open.
InitPaused ==
    /\ provisioned = {1}
    /\ session = [s \in SessionIds |-> IF s = 1 THEN [NewRow EXCEPT !.status = "paused"] ELSE NoRow]
    /\ pauses = <<[session |-> 1, paused_at |-> 1, resumed_at |-> NULL]>>
    /\ dev_users = Provisioned({1}).users
    /\ dev_queues = {[name |-> QueueName(1, UserOf(1)), disabled |-> TRUE]}
    /\ connection = [m \in Managers |-> "none"]
    /\ req = [r \in Slots |-> Idle]
    /\ now = 1
    /\ nops = 0
    /\ hist = <<>>
    /\ subscription = [status |-> "active", expiry_date |-> MaxTime,
                       current_connections |-> 0, data_used |-> 0]
    /\ NoBilling

SpecPaused == InitPaused /\ [][Next]_vars

\* The same requests served one at a time, by one worker holding one manager,
\* started with session 1 provisioned, session 12 absent and the subscription
\* active.
InitSeq == Init /\ provisioned = {1} /\ subscription.status = "active"

NextSeq ==
    \/ \E s \in SessionIds : CreateRow(s)
    \/ \E s \in SessionIds : MgrCreateStart("w1", "m1", s)
    \/ MgrCreateUser("w1")
    \/ MgrCreateQueue("w1")
    \/ \E s \in SessionIds : MgrTerminateStart("w1", "m1", s)
    \/ MgrTerminateUser("w1")
    \/ MgrTerminateQueue("w1")
    \/ MgrTerminateStore("w1")
    \/ \E s \in SessionIds : MgrPauseStart("w1", "m1", s)
    \/ MgrPauseDevice("w1")
    \/ MgrPauseStore1("w1")
    \/ MgrPauseStore2("w1")
    \/ \E s \in SessionIds : MgrResumeStart("w1", "m1", s)
    \/ MgrResumeDevice("w1")
    \/ MgrResumeStore1("w1")
    \/ MgrResumeStore2("w1")
    \/ PauseRecordClose("w1")
    \/ PauseRecordFetchSession("w1")
    \/ PauseRecordResumeSession("w1")
    \/ \E s \in SessionIds : ViewPauseStart("w1", s)
    \/ ViewPauseGet("w1")
    \/ ViewPauseStore1("w1")
    \/ ViewPauseStore2("w1")
    \/ \E s \in SessionIds : ViewResumeStart("w1", s)
    \/ ViewResumeGet("w1")
    \/ ViewResumeStore1("w1")
    \/ ViewResumeStore2("w1")
    \/ \E s \in SessionIds : ViewTerminateStart("w1", s)
    \/ ViewTerminatePost("w1")
    \/ \E s \in SessionIds, d \in 1..MaxData : MgrUpdateStart("w1", "m1", s, d)
    \/ MgrUpdateStore1("w1")
    \/ MgrUpdateSub("w1")
    \/ MgrUpdateStore2("w1")
    \/ \E s \in SessionIds, d \in 0..MaxData : WebhookStart("w1", s, "update", d)
    \/ \E s \in SessionIds : WebhookStart("w1", s, "terminate", 0)
    \/ WebhookApply("w1")

SpecSeq == InitSeq /\ [][NextSeq]_vars
\* The requests served one at a time together with the subscription's views,
\* started at the moment the subscription's expiry_date is reached.
InitSub ==
    /\ provisioned = {1}
    /\ session = [s \in SessionIds |-> IF s \in provisioned THEN NewRow ELSE NoRow]
    /\ pauses = <<>>
    /\ dev_users = Provisioned(provisioned).users
    /\ dev_queues = Provisioned(provisioned).queues
    /\ connection = [m \in Managers |-> "none"]
    /\ req = [r \in Slots |-> Idle]
    /\ now = 1
    /\ nops = 0
    /\ hist = <<>>
    /\ \E st \in {"active", "paused"} :
            subscription = [status |-> st, expiry_date |-> 1,
                            current_connections |-> 0, data_used |-> 0]
    /\ NoBilling

NextSub == NextSeq \/ SubscriptionPauseView \/ SubscriptionResumeView

SpecSub == InitSub /\ [][NextSub]_vars

\* No session request running: session 1 provisioned, the subscription active.
InitLifecycle ==
    /\ provisioned = {1}
    /\ session = [s \in SessionIds |-> IF s \in provisioned THEN NewRow ELSE NoRow]
    /\ pauses = <<>>
    /\ dev_users = Provisioned(provisioned).users
    /\ dev_queues = Provisioned(provisioned).queues
    /\ connection = [m \in Managers |-> "none"]
    /\ req = [r \in Slots |-> Idle]
    /\ now = 1
    /\ nops = 0
    /\ hist = <<>>
    /\ subscription = [status |-> "active", expiry_date |-> MaxTime,
                       current_connections |-> 0, data_used |-> 0]

\* The callers of mpesa_access_token, started with no stored token, with one
\* older than 50 minutes, or with one just created.
InitToken ==
    /\ InitLifecycle
    /\ tokens \in {<<>>,
                   <<[token |-> 0, created_at |-> 0 - TokenLifetime]>>,
                   <<[token |-> 0, created_at |-> 1]>>}
    /\ call = [c \in Callers |-> IdleCall]
    /\ issued = 0
    /\ calls = <<>>
    /\ subs = <<>>
    /\ buy = [p \in Purchases |-> "idle"]

NextToken ==
    \E c \in Callers :
        \/ MpesaAccessTokenStart(c)
        \/ MpesaAccessTokenFirst(c)
        \/ GenerateAccessTokenRequest(c)
        \/ GenerateAccessTokenRetry(c)
        \/ GenerateAccessTokenDelete(c)
        \/ GenerateAccessTokenCreate(c)

SpecToken == InitToken /\ [][NextToken]_vars

\* The purchase requests of one user who has no subscription yet, one that
\* expires at the next moment, or a paused one.
InitBuy ==
    /\ InitLifecycle
    /\ tokens = <<>>
    /\ call = [c \in Callers |-> IdleCall]
    /\ issued = 0
    /\ calls = <<>>
    /\ subs \in {<<>>,
                 <<[status |-> "active", expiry_date |-> 1]>>,
                 <<[status |-> "paused", expiry_date |-> MaxTime]>>}
    /\ buy = [p \in Purchases |-> "idle"]

NextBuy ==
    \E p \in Purchases :
        \/ CreateSubscriptionCheck(p)
        \/ CreateSubscriptionCreate(p)

SpecBuy == InitBuy /\ [][NextBuy]_vars

====
